---- MODULE Spec2Model ----
(***************************************************************************)
(* Model of imctransfer's daemon (src/imctransfer/daemon.py): the polling  *)
(* loop Daemon.run, the per-file download-and-verify loop                  *)
(* Daemon.get_metadata_and_data, the state file (get_db / save_db), the    *)
(* metadata table and the exits of main().                                 *)
(*                                                                         *)
(* Time is counted in hours.  File contents are small integers and SHA-1   *)
(* is a collision-free function on them.  File names are sequences of      *)
(* tokens so that str.replace can be computed as the code computes it.     *)
(* The state file holds JSON tokens, so a truncated file fails to parse.   *)
(***************************************************************************)
EXTENDS Integers, Sequences, FiniteSets, TLC

VARIABLES
    args,        \* parsed command line: download, overwrite, metadata, fresh
    pc,          \* position of the process
    clock,       \* wall clock, hours
    start_time,  \* Daemon.start_time
    urls,        \* local `urls` of Daemon.run
    idx,         \* position of the for-loop of get_metadata_and_data
    meta,        \* local `_meta` dict, as a sequence of rows in insertion order
    downloaded,  \* local `downloaded` of the file in transfer
    disk,        \* data directory: output path -> content or Absent
    dirs,        \* sample directories existing under the data directory
    dbFile,      \* state file: Absent or the JSON tokens it holds
    metaFile,    \* metadata table: Absent or its rows
    exitCode,    \* exit status of the process, NoExit while running
    exitReason,  \* why the process stopped
    dbAtQuery,   \* history: state file content when the cycle's query ran
    listingEq,   \* history: the cycle's listing equalled the persisted state
    execCalls,   \* history: calls of get_metadata_and_data in this cycle
    saveCalls,   \* history: calls of save_db in this cycle
    cycles,      \* history: number of listing queries started
    lateQueries, \* history: queries started after the deadline had elapsed
    stoppedAt,   \* history: position at which the process was stopped
    lastNew,     \* history: clock of the last cycle that found new files
    db0          \* history: state file content when the process started

vars == <<args, pc, clock, start_time, urls, idx, meta, downloaded, disk, dirs,
          dbFile, metaFile, exitCode, exitReason, dbAtQuery, listingEq,
          execCalls, saveCalls, cycles, lateQueries, stoppedAt,
          lastNew, db0>>

\* ---------------------------------------------------------------- bounds
MaxLen == 2
MaxCycles == 4

\* ------------------------------------------------------ program constants
REFRESH_TIME == 2
TIMEOUT_TIME == 3

\* ------------------------------------------------------------ the remote
\* two files whose names normalise to the same sample name
Urls == {"u1", "u2"}

\* a path with no file behind it; the exit status of a running process;
\* Python's None for written_to
Absent == -1
NoExit == -1
None == <<>>

\* file.name of the Box file behind each url
FileName(u) ==
    CASE u = "u1" -> <<"20230615", " ", "a", ".mcd">>
      [] OTHER    -> <<"20230615", "_", "a", ".mcd">>

\* bytes of the current version of the remote file
RemoteContent(u) ==
    CASE u = "u1" -> 1
      [] OTHER    -> 2

EmptyBytes == 0
CorruptBytes == 7
Contents == {EmptyBytes, CorruptBytes} \cup {RemoteContent(u) : u \in Urls}

\* hashlib.sha1 over the whole file, read in chunks: injective on Contents
get_sha1(c) == (c * 5 + 3) % 41

\* file.file_version.sha1
RemoteSha1(u) == get_sha1(RemoteContent(u))

RECURSIVE Replace(_, _, _)
\* str.replace(old, new) on a token string; new = "" removes the token
Replace(s, old, new) ==
    IF s = <<>> THEN <<>>
    ELSE LET rest == Replace(Tail(s), old, new) IN
         IF Head(s) = old
         THEN (IF new = "" THEN rest ELSE <<new>> \o rest)
         ELSE <<Head(s)>> \o rest

\* name = file.name.replace(".mcd", "").replace(" ", "_")
SampleName(u) == Replace(Replace(FileName(u), ".mcd", ""), " ", "_")

\* output_file = self.args.data_dir / name / file.name
OutputFile(u) == <<SampleName(u), FileName(u)>>

Paths == {OutputFile(u) : u \in Urls}

RECURSIVE SeqsUpTo(_)
SeqsUpTo(n) ==
    IF n = 0 THEN {<<>>}
    ELSE LET shorter == SeqsUpTo(n - 1) IN
         shorter \cup {Append(s, u) : s \in shorter, u \in Urls}

Distinct(s) == \A i, j \in 1..Len(s) : i # j => s[i] # s[j]

\* what one search query can return: a sequence of urls of distinct files
Listings == {s \in SeqsUpTo(MaxLen) : Distinct(s)}

\* ------------------------------------------------------------ state file
RECURSIVE JsonBody(_)
JsonBody(s) ==
    IF s = <<>> THEN <<>>
    ELSE IF Len(s) = 1 THEN <<s[1]>>
    ELSE <<s[1], ",">> \o JsonBody(Tail(s))

\* json.dump of a list of strings, as the tokens written to the file
JsonDump(s) == <<"[">> \o JsonBody(s) \o <<"]">>

\* json.load accepts exactly the texts that are a JSON list of strings
JsonValid(t) ==
    /\ Len(t) >= 2
    /\ t[1] = "["
    /\ t[Len(t)] = "]"
    /\ \/ Len(t) = 2
       \/ /\ Len(t) % 2 = 1
          /\ \A i \in 2..(Len(t) - 1) :
                IF i % 2 = 0 THEN t[i] \in Urls ELSE t[i] = ","

JsonLoad(t) == [i \in 1..((Len(t) - 1) \div 2) |-> t[2 * i]]

NoFile == [exists |-> FALSE, text |-> <<>>]
FileWith(t) == [exists |-> TRUE, text |-> t]

\* Daemon.get_db: FileNotFoundError is caught, a JSONDecodeError is not
GetDbRaises(f) == f.exists /\ ~JsonValid(f.text)

get_db(f) == IF ~f.exists THEN <<>> ELSE JsonLoad(f.text)

\* Daemon.clean_db: unlink(missing_ok=True)
clean_db(f) == NoFile

\* Daemon.__init__: the parameter is overwritten before it is read
DaemonInit(f, fresh) ==
    LET fresh_local == FALSE
    IN  IF fresh_local THEN clean_db(f) ELSE f

\* save_db appending the listing to the old snapshot instead of replacing it
save_db_Merged(old, obj) == JsonDump(old \o obj)

\* text that Daemon.save_db writes for obj over a file that held `old`
save_db(old, obj) == JsonDump(obj)

\* the comparison done on the sets of urls
Changed_AsSets(db, listing) ==
    {db[i] : i \in 1..Len(db)} # {listing[i] : i \in 1..Len(listing)}

\* run() syncing on every cycle, whatever get_db() returns
Changed_Always(db, listing) == TRUE

\* Daemon.run line 64: self.get_db() != urls, a list comparison
Changed(db, listing) == db # listing

\* run() saving the state before the files are processed
SyncFirstStep_SaveFirst == "save_db"

\* Daemon.run lines 66-67: get_metadata_and_data(urls) runs first, save_db
\* after it has returned
SyncFirstStep == "file"

\* the deadline compared against twice the configured duration
TimedOut_Doubled(now, start, delta) == now - start > delta + delta

\* Daemon.run line 71
TimedOut(now, start, delta) == now - start > delta

\* Daemon.run line 73: sys.exit(0)
TimeoutExit == 0

\* a sleep that does not let the clock advance
AfterSleep_Stuck(now, refresh) == now

\* time.sleep(self.args.refresh_time)
AfterSleep(now, refresh) == now + refresh

\* --------------------------------------------------------- metadata rows
\* the dict stored under _meta[name] (lines 134-143)
Row(u, dl) ==
    [sample_name |-> SampleName(u),
     mcd_file    |-> FileName(u),
     url         |-> u,
     sha1        |-> RemoteSha1(u),
     downloaded  |-> dl,
     written_to  |-> IF dl THEN OutputFile(u) ELSE None]

\* _meta[name] = row: a dict keeps one value per key, in insertion order
DictSet(d, row) ==
    IF \E i \in 1..Len(d) : d[i].sample_name = row.sample_name
    THEN [i \in 1..Len(d) |->
            IF d[i].sample_name = row.sample_name THEN row ELSE d[i]]
    ELSE Append(d, row)

\* str.extract(r"^(20\d{6}).*"): the leading 8-digit token, 0 when none (NaN)
AcqDate(name) ==
    IF name # <<>> /\ name[1] = "20230615" THEN 20230615
    ELSE IF name # <<>> /\ name[1] = "20220505" THEN 20220505
    ELSE 0

\* sort_values order: ascending by date, rows without a date last
DateLeq(a, b) ==
    LET da == AcqDate(a.sample_name)
        db == AcqDate(b.sample_name)
    IN  IF db = 0 THEN TRUE ELSE IF da = 0 THEN FALSE ELSE da <= db

RECURSIVE Insert(_, _)
Insert(sorted, row) ==
    IF sorted = <<>> THEN <<row>>
    ELSE IF DateLeq(sorted[Len(sorted)], row) THEN Append(sorted, row)
    ELSE Append(Insert(SubSeq(sorted, 1, Len(sorted) - 1), row),
                sorted[Len(sorted)])

RECURSIVE SortRows(_)
SortRows(d) ==
    IF d = <<>> THEN <<>>
    ELSE Insert(SortRows(SubSeq(d, 1, Len(d) - 1)), d[Len(d)])

\* lines 145-156: the table written for _meta, or the old file when skipped
WriteMetadata(old, d, enabled) ==
    IF ~enabled \/ d = <<>> THEN old
    ELSE [exists |-> TRUE, rows |-> SortRows(d)]

\* run() passing save_db only the urls whose record says downloaded
SavedListing_OnlyDownloaded(listing, rows) ==
    SelectSeq(listing,
              LAMBDA u : \E j \in 1..Len(rows) :
                            rows[j].url = u /\ rows[j].downloaded)

\* Daemon.run line 67: save_db(urls) stores the whole listing, whatever the
\* records of the cycle say
SavedListing(listing, rows) == listing

\* --------------------------------------------------- download and verify
\* lines 112-121: `mismatch` and `downloaded` for an existing destination
Mismatch(d, u) ==
    d[OutputFile(u)] # Absent /\ get_sha1(d[OutputFile(u)]) # RemoteSha1(u)

AlreadyDownloaded(d, u) ==
    d[OutputFile(u)] # Absent /\ get_sha1(d[OutputFile(u)]) = RemoteSha1(u)

\* the transfer condition without the overwrite option
NeedsTransfer_NoOverwrite(d, u, overwrite) ==
    d[OutputFile(u)] = Absent \/ Mismatch(d, u)

\* line 122
NeedsTransfer(d, u, overwrite) ==
    d[OutputFile(u)] = Absent \/ overwrite \/ Mismatch(d, u)

\* the parent directory created whether or not downloading is enabled
MkdirParent_Always(ds, u, download) == ds \cup {SampleName(u)}

\* lines 110-111: output_file.parent.mkdir, only inside `if download`
MkdirParent(ds, u, download) ==
    IF download THEN ds \cup {SampleName(u)} ELSE ds

\* open(output_file, "wb") truncates or creates the destination
OpenWb(d, u) == [d EXCEPT ![OutputFile(u)] = EmptyBytes]

\* verification that leaves a mismatching file in place
Verify_NoDelete(d, u) == d

\* lines 127-132: the disk after verification of the transferred bytes
Verify(d, u) ==
    IF get_sha1(d[OutputFile(u)]) = RemoteSha1(u)
    THEN d
    ELSE [d EXCEPT ![OutputFile(u)] = Absent]

\* lines 127-132: `downloaded` after verification; the else branch does not
\* reset what lines 112-121 set
DownloadedAfter(d, u, before) ==
    IF get_sha1(d[OutputFile(u)]) = RemoteSha1(u) THEN TRUE ELSE before

\* download_file removing the whole sample directory of the partial file
InterruptCleanup_RemovesDir(d, u) ==
    [p \in DOMAIN d |-> IF p[1] = SampleName(u) THEN Absent ELSE d[p]]

\* download_file re-raising without removing the partial file
InterruptCleanup_NoUnlink(d, u) == d

\* download_file, except KeyboardInterrupt: output_file.unlink()
InterruptCleanup(d, u) == [d EXCEPT ![OutputFile(u)] = Absent]

\* ------------------------------------------------------------------ Init
NoTable == [exists |-> FALSE, rows |-> <<>>]

\* state files a previous run can have left: none, a snapshot, or a file
\* cut short while save_db was writing it
InitialDbFiles ==
    {NoFile} \cup {FileWith(JsonDump(l)) : l \in Listings}
             \cup {FileWith(<<>>), FileWith(<<"[", "u1">>)}

\* data directories a previous run can have left: each destination absent,
\* holding the remote bytes, or holding other bytes
InitialDisks ==
    {d \in [Paths -> {Absent, CorruptBytes} \cup {RemoteContent(u) : u \in Urls}] :
        \A u \in Urls : d[OutputFile(u)] \in {Absent, CorruptBytes, RemoteContent(u)}}

Init ==
    /\ args \in [download : BOOLEAN, overwrite : BOOLEAN, metadata : BOOLEAN,
                  fresh : BOOLEAN, timeout_delta : {TIMEOUT_TIME},
                  refresh_time : {REFRESH_TIME}]
    /\ pc = "main"
    /\ clock = 0
    /\ start_time = 0
    /\ urls = <<>>
    /\ idx = 0
    /\ meta = <<>>
    /\ downloaded = FALSE
    /\ disk \in InitialDisks
    /\ dirs = {SampleName(u) : u \in {v \in Urls : disk[OutputFile(v)] # Absent}}
    /\ dbFile \in InitialDbFiles
    /\ metaFile = NoTable
    /\ exitCode = NoExit
    /\ exitReason = "none"
    /\ dbAtQuery = dbFile
    /\ listingEq = FALSE
    /\ execCalls = 0
    /\ saveCalls = 0
    /\ cycles = 0
    /\ lateQueries = 0
    /\ stoppedAt = "none"
    /\ lastNew = 0
    /\ db0 = dbFile

hist == <<dbAtQuery, listingEq, execCalls, saveCalls, cycles, lateQueries,
          stoppedAt, lastNew, db0>>
locals == <<urls, idx, meta, downloaded>>
files == <<disk, dirs, dbFile, metaFile>>

\* sys.exit(code), or an exception that leaves main
Stop(code, reason) ==
    /\ pc' = "stopped"
    /\ stoppedAt' = pc
    /\ exitCode' = code
    /\ exitReason' = reason

\* --------------------------------------------------------------- actions
\* main, lines 344-355: build the daemon and enter run()
Main ==
    /\ pc = "main"
    /\ dbFile' = DaemonInit(dbFile, FALSE)
    /\ start_time' = clock
    /\ pc' = "query"
    /\ UNCHANGED <<args, clock, locals, disk, dirs, metaFile, exitCode,
                   exitReason, hist>>

\* main, lines 305-342: the authorization exchange fails while the
\* connection is set up; the exception leaves main before run() is called
MainAuthFails ==
    /\ pc = "main"
    /\ Stop(1, "auth")
    /\ UNCHANGED <<args, clock, start_time, locals, files, dbAtQuery,
                   listingEq, execCalls, saveCalls, cycles, lateQueries,
                   lastNew, db0>>

\* run, lines 61-70: one listing query and the comparison with get_db()
Query ==
    /\ pc = "query"
    /\ cycles < MaxCycles
    /\ \E l \in Listings :
          /\ urls' = l
          /\ cycles' = cycles + 1
          /\ lateQueries' = IF clock - start_time > args.timeout_delta
                            THEN lateQueries + 1 ELSE lateQueries
          /\ dbAtQuery' = dbFile
          /\ saveCalls' = 0
          /\ IF GetDbRaises(dbFile)
             THEN /\ Stop(1, "json")
                  /\ listingEq' = FALSE
                  /\ UNCHANGED <<idx, meta, execCalls, lastNew>>
             ELSE /\ listingEq' = (get_db(dbFile) = l)
                  /\ UNCHANGED <<exitCode, exitReason, stoppedAt>>
                  /\ IF Changed(get_db(dbFile), l)
                     THEN /\ pc' = SyncFirstStep
                          /\ idx' = 1
                          /\ meta' = <<>>
                          /\ execCalls' = 1
                          /\ lastNew' = clock
                     ELSE /\ pc' = "deadline"
                          /\ execCalls' = 0
                          /\ UNCHANGED <<idx, meta, lastNew>>
    /\ UNCHANGED <<args, clock, start_time, downloaded, files, db0>>

\* get_metadata_and_data, lines 98-126: metadata fetch, the check of an
\* existing destination, and either the record or the start of a transfer
FileBegin ==
    /\ pc = "file"
    /\ idx <= Len(urls)
    /\ LET u == urls[idx] IN
       IF args.download
       THEN /\ dirs' = MkdirParent(dirs, u, args.download)
            /\ IF NeedsTransfer(disk, u, args.overwrite)
               THEN /\ disk' = OpenWb(disk, u)
                    /\ downloaded' = AlreadyDownloaded(disk, u)
                    /\ pc' = "transfer"
                    /\ UNCHANGED <<idx, meta>>
               ELSE /\ meta' = DictSet(meta, Row(u, AlreadyDownloaded(disk, u)))
                    /\ idx' = idx + 1
                    /\ UNCHANGED <<pc, disk, downloaded>>
       ELSE /\ dirs' = MkdirParent(dirs, u, args.download)
            /\ meta' = DictSet(meta, Row(u, FALSE))
            /\ idx' = idx + 1
            /\ UNCHANGED <<pc, disk, downloaded>>
    /\ UNCHANGED <<args, clock, start_time, urls, dbFile, metaFile, exitCode,
                   exitReason, hist>>

\* download_file returns, lines 126-143: the transfer delivered the remote
\* bytes or other bytes; verify, delete on mismatch, store the record
TransferDone ==
    /\ pc = "transfer"
    /\ LET u == urls[idx] IN
       \E bytes \in {RemoteContent(u), CorruptBytes} :
          LET written == [disk EXCEPT ![OutputFile(u)] = bytes] IN
          /\ disk' = Verify(written, u)
          /\ meta' = DictSet(meta, Row(u, DownloadedAfter(written, u, downloaded)))
    /\ idx' = idx + 1
    /\ downloaded' = FALSE
    /\ pc' = "file"
    /\ UNCHANGED <<args, clock, start_time, urls, dirs, dbFile, metaFile,
                   exitCode, exitReason, hist>>

\* get_metadata_and_data, lines 145-156, after the last file
SaveMetadata ==
    /\ pc = "file"
    /\ idx > Len(urls)
    /\ metaFile' = WriteMetadata(metaFile, meta, args.metadata)
    /\ pc' = "save_db"
    /\ UNCHANGED <<args, clock, start_time, locals, disk, dirs, dbFile,
                   exitCode, exitReason, hist>>

\* save_db: open(self.args.db_file, "w") truncates the state file
SaveDbOpen ==
    /\ pc = "save_db"
    /\ dbFile' = FileWith(<<>>)
    /\ saveCalls' = saveCalls + 1
    /\ pc' = "save_write"
    /\ UNCHANGED <<args, clock, start_time, locals, disk, dirs, metaFile,
                   exitCode, exitReason, dbAtQuery, listingEq, execCalls,
                   cycles, lateQueries, stoppedAt, lastNew, db0>>

\* save_db: json.dump writes the text piece by piece into the open file
SaveDbWrite ==
    /\ pc = "save_write"
    /\ LET text == save_db(get_db(dbAtQuery), SavedListing(urls, meta))
           n == Len(dbFile.text) + 1
       IN /\ dbFile' = FileWith(SubSeq(text, 1, n))
          /\ pc' = IF n = Len(text) THEN "deadline" ELSE "save_write"
    /\ UNCHANGED <<args, clock, start_time, locals, disk, dirs, metaFile,
                   exitCode, exitReason, hist>>

\* run, lines 71-73
Deadline ==
    /\ pc = "deadline"
    /\ IF TimedOut(clock, start_time, args.timeout_delta)
       THEN Stop(TimeoutExit, "timeout")
       ELSE /\ pc' = "sleep"
            /\ UNCHANGED <<exitCode, exitReason, stoppedAt>>
    /\ UNCHANGED <<args, clock, start_time, locals, files, dbAtQuery,
                   listingEq, execCalls, saveCalls, cycles, lateQueries,
                   lastNew, db0>>

\* run, line 74
Sleep ==
    /\ pc = "sleep"
    /\ clock' = AfterSleep(clock, args.refresh_time)
    /\ pc' = "query"
    /\ UNCHANGED <<args, start_time, locals, files, exitCode, exitReason, hist>>

RunPcs == {"query", "file", "transfer", "save_db", "save_write", "deadline",
           "sleep"}

\* KeyboardInterrupt inside run(): download_file removes the destination it
\* was writing, main (lines 356-358) exits with 0
Interrupt ==
    /\ pc \in RunPcs
    /\ disk' = IF pc = "transfer" THEN InterruptCleanup(disk, urls[idx])
               ELSE disk
    /\ Stop(0, "interrupt")
    /\ UNCHANGED <<args, clock, start_time, locals, dirs, dbFile, metaFile,
                   dbAtQuery, listingEq, execCalls, saveCalls, cycles,
                   lateQueries, lastNew, db0>>

\* a remote call raises: the search query, file.get or download_to.  A
\* BoxOAuthException is caught by main (lines 359-361); nothing catches any
\* other exception, and a failed download_to leaves what open() and the
\* partial writes left
RemoteFails ==
    /\ \/ pc = "query"
       \/ pc = "file" /\ idx <= Len(urls)
       \/ pc = "transfer"
    /\ \E err \in {"transient", "auth"} : Stop(1, err)
    /\ IF pc = "transfer"
       THEN \E partial \in {EmptyBytes, CorruptBytes} :
               disk' = [disk EXCEPT ![OutputFile(urls[idx])] = partial]
       ELSE disk' = disk
    /\ UNCHANGED <<args, clock, start_time, locals, dirs, dbFile, metaFile,
                   dbAtQuery, listingEq, execCalls, saveCalls, cycles,
                   lateQueries, lastNew, db0>>

Next ==
    \/ Main
    \/ MainAuthFails
    \/ Query
    \/ FileBegin
    \/ TransferDone
    \/ SaveMetadata
    \/ SaveDbOpen
    \/ SaveDbWrite
    \/ Deadline
    \/ Sleep
    \/ Interrupt
    \/ RemoteFails

Spec == Init /\ [][Next]_vars

TypeOK ==
    /\ pc \in RunPcs \cup {"main", "stopped"}
    /\ idx \in 0..(MaxLen + 1)
    /\ \A p \in Paths : disk[p] \in Contents \cup {Absent}

\* the loop when no remote call fails, no interrupt arrives and the state
\* file parses: every step of run() returns, so each enabled step is taken
InitNoFault == Init /\ ~GetDbRaises(dbFile)

NextNoFault ==
    \/ Main
    \/ Query
    \/ FileBegin
    \/ TransferDone
    \/ SaveMetadata
    \/ SaveDbOpen
    \/ SaveDbWrite
    \/ Deadline
    \/ Sleep

FairSpec == InitNoFault /\ [][NextNoFault]_vars /\ WF_vars(NextNoFault)

\* ---------------------------------------------------------------- claims
Elapsed == clock - start_time > args.timeout_delta

\* C1: every record of the cycle with downloaded = TRUE names a written_to
\* path at which a file exists whose SHA-1 equals the record's sha1.
C1_DownloadedImpliesVerified ==
    \A i \in 1..Len(meta) :
        meta[i].downloaded =>
            /\ meta[i].written_to # None
            /\ disk[meta[i].written_to] # Absent
            /\ get_sha1(disk[meta[i].written_to]) = meta[i].sha1

\* C2: every step taken in, or into, a cycle whose listing equals the
\* persisted state leaves the data directory, the metadata file and the
\* state file unchanged, and neither get_metadata_and_data nor save_db is
\* called in that cycle.
C2_UnchangedCycleNoOp ==
    [][listingEq' =>
          /\ UNCHANGED <<disk, dirs, metaFile, dbFile>>
          /\ execCalls' = 0
          /\ saveCalls' = 0]_vars

C2_Witness ==
    /\ pc = "sleep"
    /\ listingEq
    /\ cycles = 2
    /\ Len(urls) = 2
    /\ dbFile.exists

\* C3: when a cycle whose listing differs from the persisted state has
\* completed, get_metadata_and_data and save_db were each called exactly
\* once in it and the state file holds exactly the fresh listing.
C3_ChangedCycleReplaces ==
    /\ execCalls <= 1
    /\ saveCalls <= 1
    /\ (pc \in {"deadline", "sleep"} /\ cycles > 0 /\ ~listingEq) =>
          /\ execCalls = 1
          /\ saveCalls = 1
          /\ dbFile.exists
          /\ ~GetDbRaises(dbFile)
          /\ get_db(dbFile) = urls

C3_Witness ==
    /\ pc = "sleep"
    /\ ~listingEq
    /\ cycles = 2
    /\ get_db(dbAtQuery) = <<"u1", "u2">>
    /\ get_db(dbFile) = <<"u2">>

\* C4: started with --fresh, the daemon reaches its first query with the
\* state file of the earlier run deleted.
C4_FreshDeletesState ==
    (args.fresh /\ pc = "query" /\ cycles = 0) => ~dbFile.exists

\* C5 (as claimed): no listing query starts once the maximum run duration
\* since start has elapsed.
C5_NoQueryAfterDeadline == lateQueries = 0

\* C5 (amended): the deadline is evaluated before the sleep, not after it:
\* the daemon sleeps only if the duration had not elapsed when the cycle
\* ended, and at most one query starts after it has elapsed.
C5_DeadlineBeforeSleep ==
    /\ pc = "sleep" => ~Elapsed
    /\ lateQueries <= 1

C5_Witness ==
    /\ pc = "deadline"
    /\ lateQueries = 1
    /\ Elapsed

\* C6: when nothing fails and no interrupt arrives, the process eventually
\* stops through the timeout branch with exit status 0.
C6_Terminates ==
    <>(pc = "stopped" /\ exitReason = "timeout" /\ exitCode = 0)

C6_Witness ==
    /\ pc = "stopped"
    /\ exitReason = "timeout"
    /\ exitCode = 0
    /\ cycles = 3

\* C7: a transient remote error during the metadata fetch or the transfer
\* of a listed file does not stop the daemon.
C7_TransientIsolated ==
    ~(pc = "stopped" /\ exitReason = "transient"
        /\ stoppedAt \in {"file", "transfer"})

\* C8: a state file that does not parse is read as the empty state and the
\* cycle proceeds; the daemon does not stop on it.
C8_CorruptStateRecovered ==
    (cycles > 0 /\ GetDbRaises(dbAtQuery)) =>
        ~(pc = "stopped" /\ exitReason = "json")

\* C9: when the process was interrupted during a transfer, no file exists
\* at that destination, the state file is as it was when the cycle began,
\* and the exit status is 0.
C9_InterruptCleanup ==
    (pc = "stopped" /\ exitReason = "interrupt" /\ stoppedAt = "transfer") =>
        /\ disk[OutputFile(urls[idx])] = Absent
        /\ dbFile = dbAtQuery
        /\ exitCode = 0

C9_Witness ==
    /\ pc = "stopped"
    /\ exitReason = "interrupt"
    /\ stoppedAt = "transfer"
    /\ idx = 2
    /\ dbAtQuery.exists

\* C10: at every instant the state file holds the complete snapshot it held
\* when the cycle began or the complete new listing.
C10_AtomicSave ==
    cycles > 0 =>
        \/ dbFile = dbAtQuery
        \/ dbFile = FileWith(JsonDump(urls))

\* C11: after a changed cycle with metadata output enabled the metadata
\* table has exactly one row for each url of the listing.
C11_OneRowPerListedFile ==
    (pc = "save_db" /\ args.metadata /\ urls # <<>>) =>
        /\ metaFile.exists
        /\ Len(metaFile.rows) = Len(urls)
        /\ \A i \in 1..Len(urls) :
              \E j \in 1..Len(metaFile.rows) : metaFile.rows[j].url = urls[i]

\* C12: an authentication failure while the connection is set up stops the
\* process with a non-zero status before any query, download, metadata
\* write or state save, and nothing but an authentication failure yields a
\* non-zero status.
C12_AuthOnlyNonZeroExit ==
    /\ (pc = "stopped" /\ exitReason = "auth" /\ stoppedAt = "main") =>
          /\ exitCode # 0
          /\ cycles = 0
          /\ execCalls = 0
          /\ saveCalls = 0
          /\ dbFile = db0
          /\ ~metaFile.exists
    /\ (pc = "stopped" /\ exitCode # 0) => exitReason = "auth"

\* C13: the process stops on timeout only when timeout_delta hours have
\* passed since the last cycle that found new files.
C13_TimeoutSinceLastNewFiles ==
    (pc = "stopped" /\ exitReason = "timeout") =>
        clock - lastNew > args.timeout_delta

\* C14: with downloading disabled no step starts a transfer or changes the
\* data directory, and each listed file that is processed gets a record
\* with downloaded = FALSE and no written_to path, whatever is on disk.
C14_DownloadDisabled ==
    [][~args.download =>
          /\ UNCHANGED <<disk, dirs>>
          /\ pc' # "transfer"
          /\ (pc = "file" /\ idx' = idx + 1) =>
                \E j \in 1..Len(meta') :
                    /\ meta'[j].url = urls[idx]
                    /\ meta'[j].downloaded = FALSE
                    /\ meta'[j].written_to = None]_vars

C14_Witness ==
    /\ ~args.download
    /\ pc = "save_db"
    /\ Len(urls) = 2
    /\ disk[OutputFile(urls[2])] = RemoteContent(urls[2])
    /\ \A j \in 1..Len(meta) : ~meta[j].downloaded
    /\ dirs = {SampleName(urls[2])}

\* C15: with downloading enabled, the destination of every file the cycle
\* has finished processing is absent or holds bytes whose SHA-1 equals the
\* file's contentHash.
C15_NoPresentAndWrong ==
    (args.download /\ pc \in {"file", "transfer", "save_db", "save_write"}) =>
        \A i \in 1..Len(urls) :
            i < idx =>
                \/ disk[OutputFile(urls[i])] = Absent
                \/ get_sha1(disk[OutputFile(urls[i])]) = RemoteSha1(urls[i])

C15_Witness ==
    /\ args.download
    /\ pc = "file"
    /\ cycles = 1
    /\ idx = 2
    /\ Len(meta) = 1
    /\ ~meta[1].downloaded
    /\ disk[OutputFile(urls[1])] = Absent
    /\ SampleName(urls[1]) \in dirs

\* C16: with downloading enabled a listed file is transferred exactly when
\* its destination is absent, or overwrite is set, or the destination's
\* SHA-1 differs from contentHash; otherwise the destination is left
\* untouched and the record says downloaded.  A transfer that returns is
\* followed by the next file, never by a second transfer of the same file.
C16_TransferDecision ==
    [][/\ (args.download /\ pc = "file" /\ idx <= Len(urls)
            /\ pc' # "stopped") =>
              LET u == urls[idx]
                  must == \/ disk[OutputFile(u)] = Absent
                          \/ args.overwrite
                          \/ get_sha1(disk[OutputFile(u)]) # RemoteSha1(u)
              IN  /\ (pc' = "transfer") <=> must
                  /\ ~must =>
                        /\ disk' = disk
                        /\ idx' = idx + 1
                        /\ \E j \in 1..Len(meta') :
                              /\ meta'[j].url = u
                              /\ meta'[j].downloaded
       /\ (pc = "transfer" /\ pc' # "stopped") =>
              (pc' = "file" /\ idx' = idx + 1)]_vars

C16_Witness ==
    /\ pc = "transfer"
    /\ args.overwrite
    /\ downloaded
    /\ idx = 2

\* C17: the metadata table is written only when every listed file has been
\* processed, the state file is written only after that step, and while
\* files are being processed, or when the process stopped there, the state
\* file is still what it was when the cycle began.
C17_WriteOrdering ==
    [][/\ metaFile' # metaFile => (pc = "file" /\ idx > Len(urls))
       /\ (pc' = "save_db" /\ pc # "save_db") =>
              (pc = "file" /\ idx > Len(urls))
       /\ dbFile' # dbFile =>
              (pc \in {"save_db", "save_write"} /\ idx > Len(urls))
       /\ (pc' \in {"file", "transfer"} \/ stoppedAt' \in {"file", "transfer"})
              => dbFile' = dbAtQuery']_vars

C17_Witness ==
    /\ pc = "stopped"
    /\ stoppedAt = "transfer"
    /\ exitReason = "transient"
    /\ idx = 2
    /\ dbAtQuery.exists
    /\ dbFile = dbAtQuery
    /\ get_db(dbFile) # urls

\* C18: a query is followed by the no-new-files branch only when the
\* listing equals the persisted sequence element by element; any other
\* listing, a reordering of the same urls included, runs the sync.
C18_OrderSensitive ==
    [][(pc = "query" /\ pc' \notin {"query", "stopped"}) =>
          LET db == get_db(dbFile)
              same == /\ Len(urls') = Len(db)
                      /\ \A i \in 1..Len(db) : urls'[i] = db[i]
          IN  /\ (pc' = "deadline") <=> same
              /\ ~same => (pc' = "file" /\ idx' = 1 /\ execCalls' = 1)]_vars

C18_Witness ==
    /\ pc = "file"
    /\ idx = 1
    /\ cycles = 2
    /\ execCalls = 1
    /\ urls = <<"u2", "u1">>
    /\ get_db(dbAtQuery) = <<"u1", "u2">>

\* C19: a changed cycle stores the whole listing even when a listed file
\* ended up absent, and in a cycle whose listing equals the persisted state
\* a listed file that is absent from disk is not attempted again.
C19_NoRetryWhileStable ==
    /\ []((pc \in {"deadline", "sleep"} /\ cycles > 0 /\ ~listingEq
             /\ args.download
             /\ \E i \in 1..Len(urls) : disk[OutputFile(urls[i])] = Absent)
           => get_db(dbFile) = urls)
    /\ [][(args.download /\ listingEq'
             /\ \E i \in 1..Len(urls') : disk'[OutputFile(urls'[i])] = Absent)
           => (pc' \notin {"file", "transfer"} /\ disk' = disk
               /\ execCalls' = 0)]_vars

C19_Witness ==
    /\ pc = "sleep"
    /\ cycles = 2
    /\ listingEq
    /\ args.download
    /\ ~db0.exists
    /\ Len(urls) = 1
    /\ disk[OutputFile(urls[1])] = Absent

\* C20: a data file changes only if it is the destination of the file being
\* processed: it is truncated when the transfer into it starts, and it is
\* deleted only after that start; every other data file stays as it is.
C20_DeletionFrame ==
    [][\A p \in Paths :
          disk'[p] # disk[p] =>
              /\ pc \in {"file", "transfer"}
              /\ idx <= Len(urls)
              /\ p = OutputFile(urls[idx])
              /\ pc = "file" => (pc' = "transfer" /\ disk'[p] = EmptyBytes)
              /\ disk'[p] = Absent => pc = "transfer"]_vars

C20_Witness ==
    /\ args.download
    /\ pc = "file"
    /\ idx = 2
    /\ urls = <<"u1">>
    /\ get_db(dbAtQuery) = <<"u1", "u2">>
    /\ disk[OutputFile("u1")] = Absent
    /\ disk[OutputFile("u2")] = RemoteContent("u2")

====
